---- MODULE Spec2Model ----
(***************************************************************************)
(* The tool-dispatch server of mcp_bq_sse: server.py (create_starlette_app *)
(* with its handlers handle_list_tools, handle_call_tool, handle_sse) and  *)
(* the adapter bigqueryOp.py (BigQueryDatabase).                           *)
(*                                                                         *)
(* One BigQueryDatabase object, db, is built by create_starlette_app and   *)
(* captured by the handler closures, so every connection dispatches to the *)
(* same object.  Spec is the serving model: it starts from a constructed   *)
(* adapter, which is what the handler closures run against.                *)
(*                                                                         *)
(* Python values are modelled as follows.  None and "a value" are the      *)
(* sequences <<>> and <<v>>.  A str that the code takes apart (table_name) *)
(* is a sequence of one-character strings; other strs are TLA+ strings.    *)
(* A dict is a function on its keys; a result row is the sequence of its   *)
(* (name, value) items.  A raised exception is a record with raised = TRUE *)
(* carrying the exception's message.                                       *)
(***************************************************************************)
EXTENDS Integers, Sequences, FiniteSets, TLC

VARIABLES
    config,     \* the command line flags, the environment and what main resolves
    inflight,   \* the connections whose handler is inside a backend call
    process,    \* "starting", then "serving" once uvicorn.run has the
                \* application, or "failed" when main raised
    db,         \* the BigQueryDatabase object: last_query_results, datasets_filter
    files,      \* the file system: path -> CSV content, for the files that exist
    now,        \* the wall clock, in seconds
    phase,      \* per connection: "Idle", "Open" (server.run is running), "Closed"
    posted,     \* the number of frames posted so far, on all connections
    inbox,      \* per connection: read_stream, the frames not yet dispatched
    outbox,     \* per connection: write_stream, the responses emitted, by frame
    advertised, \* per connection: handle_list_tools has answered
    hist,       \* per connection: what its own invocations have done (history)
    last        \* the most recent handler run (history)

vars == <<config, inflight, process, db, files, now, phase, posted, inbox, outbox, advertised, hist, last>>

----------------------------------------------------------------------------
(* Bounds *)

MaxFrames == 2      \* frames the clients post (Spec)
MaxCalls == 2       \* invocations made one after the other (DispatchSpec, ExportSpec)
MaxClock == 2       \* instants the wall clock advances through
MaxNameLen == 3     \* characters of a table_name

Sessions == {"A", "B"}

----------------------------------------------------------------------------
(* Python values *)

None == <<>>
Some(v) == <<v>>

\* arguments: dict[str, Any] | None
NotArguments(arguments) == arguments = None \/ DOMAIN arguments[1] = {}
In(key, arguments) == key \in DOMAIN arguments[1]

Raise(type, msg) == [raised |-> TRUE, type |-> type, val |-> msg]
Return(v) == [raised |-> FALSE, type |-> "", val |-> v]

----------------------------------------------------------------------------
(* str.split and str.join, on sequences of characters *)

RECURSIVE split(_, _)
split(str, sep) ==
    IF \A i \in 1..Len(str) : str[i] # sep
    THEN <<str>>
    ELSE LET i == CHOOSE k \in 1..Len(str) :
                      str[k] = sep /\ \A j \in 1..(k - 1) : str[j] # sep
         IN  <<SubSeq(str, 1, i - 1)>> \o split(SubSeq(str, i + 1, Len(str)), sep)

RECURSIVE join(_, _)
join(sep, parts) ==
    IF parts = <<>> THEN <<>>
    ELSE IF Len(parts) = 1 THEN parts[1]
    ELSE parts[1] \o <<sep>> \o join(sep, Tail(parts))

----------------------------------------------------------------------------
(* Paths.  A path is its directory part, its base name and, for a          *)
(* generated name, the timestamp: "{dir}/{base}_{stamp}.csv".              *)

Path(dir, base, stamp) == [dir |-> dir, base |-> base, stamp |-> stamp]

\* os.path.dirname
dirname(path) == path.dir

\* os.path.join(directory, filename), filename having no directory part
os_path_join(directory, filename) == [filename EXCEPT !.dir = directory]

\* datetime.now() is finer than a second: the instants in one second
TicksPerSecond == 2

\* datetime.now().strftime("%Y%m%d_%H%M%S"): the second the instant lies in
strftime(t) == t \div TicksPerSecond

\* BigQueryDatabase.generate_csv_filename
generate_csv_filename(base_name, t) == Path("", base_name, Some(strftime(t)))

----------------------------------------------------------------------------
(* The warehouse: what client.query(...).result() can give.  A result is a *)
(* schema (field names) and rows, each row the sequence of its items.      *)

Item(n, v) == <<n, v>>

QueryResults ==
    { [schema |-> <<>>, rows |-> <<>>],
      [schema |-> <<"a">>, rows |-> << <<Item("a", "1")>> >>],
      [schema |-> <<"a", "b">>,
       rows |-> << <<Item("a", "1"), Item("b", "2")>>,
                   <<Item("a", "3"), Item("b", "4")>> >>] }

\* SELECT ddl FROM {dataset}.INFORMATION_SCHEMA.TABLES WHERE table_name = @table_name
DdlResults ==
    { [schema |-> <<"ddl">>, rows |-> <<>>],
      [schema |-> <<"ddl">>, rows |-> << <<Item("ddl", "CREATE TABLE")>> >>] }

\* client.list_datasets / client.list_tables
Catalog == << [dataset_id |-> "ds1", tables |-> <<"t1", "t2">>],
              [dataset_id |-> "ds2", tables |-> <<"t3">>] >>

\* dict(row.items()) keeps one item per name, in first-occurrence order
RECURSIVE dict(_)
dict(items) ==
    IF items = <<>> THEN <<>>
    ELSE LET d == dict(SubSeq(items, 1, Len(items) - 1))
             it == items[Len(items)]
         IN  IF \E i \in 1..Len(d) : d[i][1] = it[1]
             THEN [i \in 1..Len(d) |-> IF d[i][1] = it[1] THEN it ELSE d[i]]
             ELSE Append(d, it)

\* list(row.values())
values(row) == [i \in 1..Len(row) |-> row[i][2]]

\* [field.name for field in schema]
headers(schema) == schema

\* a writer that leaves the header line out
CsvLines_rows_only(schema, rows) ==
    [i \in 1..Len(rows) |-> values(rows[i])]

(* csv.writer: the header line when the schema is truthy, then a line per row *)
CsvLines(schema, rows) ==
    (IF schema # <<>> THEN <<headers(schema)>> ELSE <<>>)
        \o [i \in 1..Len(rows) |-> values(rows[i])]

----------------------------------------------------------------------------
(* BigQueryDatabase.  Every method gives an effect: whether it raised, its  *)
(* value (or the exception's message), the object and the file system      *)
(* afterwards, the queries it sent to the warehouse, the dataset listings  *)
(* it asked for and the path it opened for writing.                        *)
(*                                                                         *)
(* out is what the outside world does during the call:                     *)
(*   out.res  None when client.query(...).result() raises, else its result *)
(*   out.fs   "ok", or "fail" when makedirs/open raises                    *)
(* An interruption in the middle of a row loop is not modelled.            *)

Eff(r, d, fsys, queries, listings, wrote) ==
    [raised |-> r.raised, type |-> r.type, val |-> r.val, db |-> d, files |-> fsys,
     queries |-> queries, listings |-> listings, wrote |-> wrote]

Job(query, params) == [sql |-> query, params |-> params]

\* f"Successfully saved {row_count} rows to {file_path}"
SavedMessage(row_count, file_path) ==
    [head |-> "Successfully saved ", body |-> [row_count |-> row_count, file_path |-> file_path]]

\* execute_query dropping the cached result before it runs the query
execute_query_clears_first(d, fsys, query, params, out) ==
    IF out.res = None
    THEN Eff(Raise("BackendError", "backend failure"),
             [d EXCEPT !.last_query_results = None], fsys,
             <<Job(query, params)>>, 0, None)
    ELSE LET results == out.res[1]
             rows == [i \in 1..Len(results.rows) |-> dict(results.rows[i])]
         IN  Eff(Return(rows),
                 [d EXCEPT !.last_query_results =
                               Some([rows |-> rows, schema |-> results.schema])],
                 fsys, <<Job(query, params)>>, 0, None)

execute_query(d, fsys, query, params, out) ==
    IF out.res = None
    THEN Eff(Raise("BackendError", "backend failure"), d, fsys,
             <<Job(query, params)>>, 0, None)
    ELSE LET results == out.res[1]
             rows == [i \in 1..Len(results.rows) |-> dict(results.rows[i])]
         IN  Eff(Return(rows),
                 [d EXCEPT !.last_query_results =
                               Some([rows |-> rows, schema |-> results.schema])],
                 fsys, <<Job(query, params)>>, 0, None)

\* def list_tables(self): the parameters it takes besides self
ListTablesParams == 0

list_tables(d, fsys, nargs, out) ==
    IF nargs # ListTablesParams
    THEN Eff(Raise("TypeError", "list_tables() takes 1 positional argument but 2 were given"),
             d, fsys, <<>>, 0, None)
    ELSE IF out.res = None
    THEN Eff(Raise("BackendError", "backend failure"), d, fsys, <<>>, 1, None)
    ELSE LET datasets ==
                 IF d.datasets_filter # <<>>
                 THEN SelectSeq(Catalog, LAMBDA c :
                          \E i \in 1..Len(d.datasets_filter) :
                              d.datasets_filter[i] = c.dataset_id)
                 ELSE Catalog
             tables == [i \in 1..Len(datasets) |->
                           [j \in 1..Len(datasets[i].tables) |->
                               <<datasets[i].dataset_id, ".", datasets[i].tables[j]>>]]
         IN  Eff(Return(tables), d, fsys, <<>>, 1 + Len(datasets), None)

\* describe_table with the test on the number of parts only asking for two or more
describe_table_two_or_more(d, fsys, table_name, out) ==
    LET parts == split(table_name, ".") IN
    IF Len(parts) < 2
    THEN Eff(Raise("ValueError", "Invalid table name"), d, fsys, <<>>, 0, None)
    ELSE execute_query(d, fsys,
                       <<"SELECT ddl FROM ", join(".", SubSeq(parts, 1, Len(parts) - 1))>>,
                       Some(parts[Len(parts)]), out)

describe_table(d, fsys, table_name, out) ==
    LET parts == split(table_name, ".") IN
    IF Len(parts) # 2 /\ Len(parts) # 3
    THEN Eff(Raise("ValueError", "Invalid table name"), d, fsys, <<>>, 0, None)
    ELSE LET dataset_id == join(".", SubSeq(parts, 1, Len(parts) - 1))
             table_id == parts[Len(parts)]
         IN  execute_query(d, fsys, <<"SELECT ddl FROM ", dataset_id>>,
                           Some(table_id), out)

\* save_query_to_csv_file opening the file in append mode
save_query_to_csv_file_append(d, fsys, query, file_path, out) ==
    IF out.res = None
    THEN Eff(Raise("BackendError", "backend failure"), d, fsys,
             <<Job(query, None)>>, 0, None)
    ELSE IF dirname(file_path) = ""
    THEN Eff(Raise("FileNotFoundError", "No such file or directory: ''"), d, fsys,
             <<Job(query, None)>>, 0, None)
    ELSE IF out.fs # "ok"
    THEN Eff(Raise("OSError", "cannot write"), d, fsys, <<Job(query, None)>>, 0, None)
    ELSE LET results == out.res[1]
             old == IF file_path \in DOMAIN fsys THEN fsys[file_path] ELSE <<>>
         IN
         Eff(Return(SavedMessage(Len(results.rows), file_path)), d,
             (file_path :> old \o CsvLines(results.schema, results.rows)) @@ fsys,
             <<Job(query, None)>>, 0, Some(file_path))

save_query_to_csv_file(d, fsys, query, file_path, out) ==
    IF out.res = None
    THEN Eff(Raise("BackendError", "backend failure"), d, fsys,
             <<Job(query, None)>>, 0, None)
    ELSE IF dirname(file_path) = ""
    THEN Eff(Raise("FileNotFoundError", "No such file or directory: ''"), d, fsys,
             <<Job(query, None)>>, 0, None)
    ELSE IF out.fs # "ok"
    THEN Eff(Raise("OSError", "cannot write"), d, fsys, <<Job(query, None)>>, 0, None)
    ELSE LET results == out.res[1] IN
         Eff(Return(SavedMessage(Len(results.rows), file_path)), d,
             (file_path :> CsvLines(results.schema, results.rows)) @@ fsys,
             <<Job(query, None)>>, 0, Some(file_path))

save_last_results_to_csv_file(d, fsys, file_path, out) ==
    IF d.last_query_results = None
    THEN Eff(Raise("ValueError",
                   "No previous query results available. Execute a query first."),
             d, fsys, <<>>, 0, None)
    ELSE IF dirname(file_path) = ""
    THEN Eff(Raise("FileNotFoundError", "No such file or directory: ''"), d, fsys,
             <<>>, 0, None)
    ELSE IF out.fs # "ok"
    THEN Eff(Raise("OSError", "cannot write"), d, fsys, <<>>, 0, None)
    ELSE LET cached == d.last_query_results[1] IN
         Eff(Return(SavedMessage(Len(cached.rows), file_path)), d,
             (file_path :> CsvLines(cached.schema, cached.rows)) @@ fsys,
             <<>>, 0, Some(file_path))

----------------------------------------------------------------------------
(* The tool registry: handle_list_tools.  Each tool with its input schema: *)
(* the properties it declares and the ones it requires.                    *)

Tool(name, properties, required) ==
    [name |-> name, properties |-> properties, required |-> required]

\* a catalog that leaves out its last tool
handle_list_tools_five ==
    << Tool("execute-query", {"query"}, {"query"}),
       Tool("list-tables", {"datasets_filter"}, {}),
       Tool("describe-table", {"table_name"}, {"table_name"}),
       Tool("save-csv-file", {"query", "file_path"}, {"query", "file_path"}),
       Tool("save-last-results-csv", {"file_path"}, {"file_path"}) >>

handle_list_tools_result ==
    << Tool("execute-query", {"query"}, {"query"}),
       Tool("list-tables", {"datasets_filter"}, {}),
       Tool("describe-table", {"table_name"}, {"table_name"}),
       Tool("save-csv-file", {"query", "file_path"}, {"query", "file_path"}),
       Tool("save-last-results-csv", {"file_path"}, {"file_path"}),
       Tool("save-csv-auto", {"query", "directory", "base_name"}, {"query"}) >>

----------------------------------------------------------------------------
(* The dispatcher: handle_call_tool.  One operator per branch of its       *)
(* if/elif chain, then the try/except around them.                         *)

NoEffect(r, d, fsys) == Eff(r, d, fsys, <<>>, 0, None)

\* str(results)
Str(results) == [head |-> "[", body |-> results]

\* f"Error: {str(e)}"
ErrorText(msg) == [head |-> "Error: ", body |-> msg]

TextContent(text) == [type |-> "text", text |-> text]

list_tables_branch(arguments, d, fsys, t, out) ==
    IF arguments = None
    THEN NoEffect(Raise("TypeError", "'NoneType' object is not subscriptable"), d, fsys)
    ELSE IF ~In("datasets_filter", arguments)
    THEN NoEffect(Raise("KeyError", "'datasets_filter'"), d, fsys)
    ELSE LET e == list_tables(d, fsys, 1, out) IN
         IF e.raised THEN e ELSE [e EXCEPT !.val = Str(e.val)]

describe_table_branch(arguments, d, fsys, t, out) ==
    IF NotArguments(arguments) \/ ~In("table_name", arguments)
    THEN NoEffect(Raise("ValueError", "Missing table_name argument"), d, fsys)
    ELSE LET e == describe_table(d, fsys, arguments[1].table_name, out) IN
         IF e.raised THEN e ELSE [e EXCEPT !.val = Str(e.val)]

save_csv_file_branch(arguments, d, fsys, t, out) ==
    IF \/ NotArguments(arguments)
       \/ ~In("query", arguments)
       \/ ~In("file_path", arguments)
    THEN NoEffect(Raise("ValueError", "Missing query or file_path argument"), d, fsys)
    ELSE save_query_to_csv_file(d, fsys, arguments[1].query, arguments[1].file_path, out)

save_last_results_csv_branch(arguments, d, fsys, t, out) ==
    IF NotArguments(arguments) \/ ~In("file_path", arguments)
    THEN NoEffect(Raise("ValueError", "Missing file_path argument"), d, fsys)
    ELSE save_last_results_to_csv_file(d, fsys, arguments[1].file_path, out)

save_csv_auto_branch(arguments, d, fsys, t, out) ==
    IF NotArguments(arguments) \/ ~In("query", arguments)
    THEN NoEffect(Raise("ValueError", "Missing query argument"), d, fsys)
    ELSE LET directory == IF In("directory", arguments)
                          THEN arguments[1].directory ELSE "."
             base_name == IF In("base_name", arguments)
                          THEN arguments[1].base_name ELSE "bigquery_export"
             filename == generate_csv_filename(base_name, t)
             file_path == os_path_join(directory, filename)
         IN  save_query_to_csv_file(d, fsys, arguments[1].query, file_path, out)

\* the execute-query branch without its check, reading arguments.get("query")
execute_query_branch_get(arguments, d, fsys, t, out) ==
    LET query == IF arguments # None /\ In("query", arguments)
                 THEN Some(arguments[1].query) ELSE None
        e == execute_query(d, fsys, query, None, out)
    IN  IF e.raised THEN e ELSE [e EXCEPT !.val = Str(e.val)]

execute_query_branch(arguments, d, fsys, t, out) ==
    IF NotArguments(arguments) \/ ~In("query", arguments)
    THEN NoEffect(Raise("ValueError", "Missing query argument"), d, fsys)
    ELSE LET e == execute_query(d, fsys, arguments[1].query, None, out) IN
         IF e.raised THEN e ELSE [e EXCEPT !.val = Str(e.val)]

\* an else branch that returns an empty row list instead of raising
unknown_tool_branch_silent(name, d, fsys) ==
    NoEffect(Return(Str(<<>>)), d, fsys)

unknown_tool_branch(name, d, fsys) ==
    NoEffect(Raise("ValueError", <<"Unknown tool: ", name>>), d, fsys)

\* the body of the try block
try_block(name, arguments, d, fsys, t, out) ==
    IF name = "list-tables" THEN list_tables_branch(arguments, d, fsys, t, out)
    ELSE IF name = "describe-table" THEN describe_table_branch(arguments, d, fsys, t, out)
    ELSE IF name = "save-csv-file" THEN save_csv_file_branch(arguments, d, fsys, t, out)
    ELSE IF name = "save-last-results-csv"
    THEN save_last_results_csv_branch(arguments, d, fsys, t, out)
    ELSE IF name = "save-csv-auto" THEN save_csv_auto_branch(arguments, d, fsys, t, out)
    ELSE IF name = "execute-query" THEN execute_query_branch(arguments, d, fsys, t, out)
    ELSE unknown_tool_branch(name, d, fsys)

\* an except clause that catches ValueError only: anything else leaves the
\* handler without a result
except_ValueError_only(e) ==
    IF e.type = "ValueError" THEN <<TextContent(ErrorText(e.val))>> ELSE <<>>

\* except Exception as e: every exception becomes the result
except_block(e) == <<TextContent(ErrorText(e.val))>>

\* handle_call_tool: the effect of the try block and the content list returned
CallTool(name, arguments, d, fsys, t, out) ==
    LET e == try_block(name, arguments, d, fsys, t, out) IN
    [effect |-> e,
     content |-> IF e.raised THEN except_block(e) ELSE <<TextContent(e.val)>>]

----------------------------------------------------------------------------
(* What clients send and what the outside world answers *)

ToolNames ==
    {"execute-query", "list-tables", "describe-table", "save-csv-file",
     "save-last-results-csv", "save-csv-auto", "drop-everything"}

QueryTools == {"execute-query", "save-csv-file", "save-csv-auto"}

Chars == {"a", "."}
TableNames == UNION {[1..n -> Chars] : n \in 0..MaxNameLen}

Queries == {"SELECT 1", ""}

FilePaths == {Path("out", "data", None), Path("", "data", None)}

\* no bag at all, the empty bag, and a bag holding only a key no tool reads
NoUse == {None, Some([k \in {} |-> ""]), Some([comment |-> "x"])}

QueryBags == {Some([query |-> q]) : q \in Queries}
FilePathBags == {Some([file_path |-> p]) : p \in FilePaths}

\* the argument bags a client sends with each tool name
ArgumentBags(name) ==
    NoUse \cup
    CASE name = "execute-query" -> QueryBags
      [] name = "list-tables" -> {Some([datasets_filter |-> "ds1"])}
      [] name = "describe-table" -> {Some([table_name |-> n]) : n \in TableNames}
      [] name = "save-csv-file" ->
            QueryBags \cup FilePathBags
            \cup {Some([query |-> "SELECT 1", file_path |-> p]) : p \in FilePaths}
      [] name = "save-last-results-csv" -> FilePathBags
      [] name = "save-csv-auto" ->
            QueryBags \cup FilePathBags
            \cup {Some([query |-> "SELECT 1", directory |-> "out", base_name |-> "x"])}
      [] OTHER -> {Some([query |-> "SELECT 1"])}

\* one well-formed bag for each tool, and no bag
TypicalBags(name) ==
    {None} \cup
    CASE name = "execute-query" -> {Some([query |-> "SELECT 1"])}
      [] name = "list-tables" -> {Some([datasets_filter |-> "ds1"])}
      [] name = "describe-table" -> {Some([table_name |-> <<"a", ".", "a">>])}
      [] name = "save-csv-file" ->
            {Some([query |-> "SELECT 1", file_path |-> Path("out", "data", None)])}
      [] name = "save-last-results-csv" -> {Some([file_path |-> Path("out", "data", None)])}
      [] name = "save-csv-auto" -> {Some([query |-> "SELECT 1"])}
      [] OTHER -> {}

\* the results the warehouse can give a tool's query
ResultsFor(name) ==
    IF name = "describe-table" THEN DdlResults
    ELSE IF name \in QueryTools THEN QueryResults
    ELSE {[schema |-> <<>>, rows |-> <<>>]}

\* the tools that write a file
FileTools == {"save-csv-file", "save-last-results-csv", "save-csv-auto"}

Outcomes(name) ==
    [res : {None} \cup {Some(r) : r \in ResultsFor(name)},
     fs : IF name \in FileTools THEN {"ok", "fail"} ELSE {"ok"}]

----------------------------------------------------------------------------
(* The session bridge.  handle_sse runs server.run on the connection's     *)
(* read_stream and write_stream; a posted frame is known by its arrival   *)
(* number, and its payload is drawn when the handler reads it.             *)

\* a run loop that takes the newest frame first
DequeueNewest(q) == [frame |-> q[Len(q)], rest |-> SubSeq(q, 1, Len(q) - 1)]

\* the frame server.run takes from read_stream, and what stays queued
Dequeue(q) == [frame |-> Head(q), rest |-> Tail(q)]

\* the cache the handlers of connection s read and write: the closures of
\* every connection hold the one db
LastQueryCache(s) == db.last_query_results

NoHistory == [exec |-> None, called |-> FALSE, erred |-> FALSE]

\* a configuration that names a project and a location
ServingConfig ==
    [flags |-> [project |-> Some("p"), location |-> Some("US"), key_file |-> None],
     env |-> [project |-> None, location |-> None, key_file |-> None],
     resolved |-> Some([project |-> Some("p"), location |-> Some("US"),
                        key_file |-> None])]

Init ==
    /\ config = ServingConfig
    /\ inflight = {}
    /\ process = "serving"
    /\ db = [last_query_results |-> None, datasets_filter |-> <<>>]
    /\ files = [p \in {} |-> <<>>]
    /\ now = 0
    /\ phase = [s \in Sessions |-> "Idle"]
    /\ posted = 0
    /\ inbox = [s \in Sessions |-> <<>>]
    /\ outbox = [s \in Sessions |-> <<>>]
    /\ advertised = [s \in Sessions |-> FALSE]
    /\ hist = [s \in Sessions |-> NoHistory]
    /\ last = None

\* GET /sse: a client connects
handle_sse(s) ==
    /\ process = "serving"
    /\ phase[s] = "Idle"
    /\ phase' = [phase EXCEPT ![s] = "Open"]
    /\ UNCHANGED <<config, inflight, process, db, files, now, posted, inbox, outbox, advertised, hist, last>>

\* the client goes away: connect_sse exits, what was queued is dropped
Disconnect(s) ==
    /\ phase[s] = "Open"
    /\ phase' = [phase EXCEPT ![s] = "Closed"]
    /\ inbox' = [inbox EXCEPT ![s] = <<>>]
    /\ UNCHANGED <<config, inflight, process, db, files, now, posted, outbox, advertised, hist, last>>

\* POST /messages/: a frame arrives on the connection's read_stream
handle_post_message(s) ==
    /\ process = "serving"
    /\ phase[s] = "Open"
    /\ posted < MaxFrames
    /\ posted' = posted + 1
    /\ inbox' = [inbox EXCEPT ![s] = Append(@, posted + 1)]
    /\ UNCHANGED <<config, inflight, process, db, files, now, phase, outbox, advertised, hist, last>>

\* a tools/list request is answered
handle_list_tools(s) ==
    /\ process = "serving"
    /\ phase[s] = "Open"
    /\ inbox[s] # <<>>
    /\ LET d == Dequeue(inbox[s]) IN
       /\ inbox' = [inbox EXCEPT ![s] = d.rest]
       /\ outbox' = [outbox EXCEPT ![s] = Append(@, d.frame)]
       /\ last' = Some([sess |-> s, frame |-> d.frame, method |-> "tools/list",
                        name |-> "", arguments |-> None, raised |-> FALSE,
                        type |-> "", content |-> handle_list_tools_result,
                        before |-> db, files_before |-> files,
                        queries |-> <<>>, listings |-> 0,
                        wrote |-> None, result |-> None, at |-> now])
    /\ advertised' = [advertised EXCEPT ![s] = TRUE]
    /\ UNCHANGED <<config, inflight, process, db, files, now, phase, posted, hist>>

\* what one run of handle_call_tool leaves behind, for the frame it answers
Handled(s, frame, name, arguments, out) ==
    LET r == CallTool(name, arguments, db, files, now, out)
        e == r.effect
        ok == ~e.raised
    IN  /\ db' = e.db
        /\ files' = e.files
        /\ outbox' = [outbox EXCEPT ![s] = Append(@, frame)]
        /\ hist' = [hist EXCEPT ![s] =
             [exec |-> IF name = "execute-query" /\ ok THEN out.res ELSE @.exec,
              called |-> @.called \/ name \in QueryTools,
              erred |-> @.erred \/ e.raised]]
        /\ last' = Some([sess |-> s, frame |-> frame, method |-> "tools/call",
                         name |-> name, arguments |-> arguments,
                         raised |-> e.raised, type |-> e.type,
                         content |-> r.content,
                         before |-> db, files_before |-> files,
                         queries |-> e.queries, listings |-> e.listings,
                         wrote |-> e.wrote,
                         result |-> IF ok /\ e.queries # <<>> THEN out.res ELSE None,
                         at |-> now])

\* a tools/call request is dispatched: the whole of handle_call_tool
handle_call_tool(s) ==
    /\ process = "serving"
    /\ phase[s] = "Open"
    /\ inbox[s] # <<>>
    /\ \E name \in ToolNames :
       \E arguments \in TypicalBags(name), out \in Outcomes(name) :
          /\ Handled(s, Dequeue(inbox[s]).frame, name, arguments, out)
          /\ inbox' = [inbox EXCEPT ![s] = Dequeue(inbox[s]).rest]
    /\ UNCHANGED <<config, inflight, process, now, phase, posted, advertised>>

\* a frame posted to an idle connection and dispatched at once: a call of one
\* of the tools in names, with any of the argument bags
InvokeOneOf(s, names) ==
    /\ process = "serving"
    /\ phase[s] = "Open"
    /\ inbox[s] = <<>>
    /\ posted < MaxCalls
    /\ posted' = posted + 1
    /\ \E name \in names :
       \E arguments \in ArgumentBags(name), out \in Outcomes(name) :
          Handled(s, posted + 1, name, arguments, out)
    /\ UNCHANGED <<config, inflight, process, now, phase, inbox, advertised>>

\* a call of any tool
Invoke(s) == InvokeOneOf(s, ToolNames)

\* a call of one of the tools that write a file
Export(s) == InvokeOneOf(s, FileTools)

\* the wall clock moves on to the next instant
Tick ==
    /\ now < MaxClock
    /\ now' = now + 1
    /\ UNCHANGED <<config, inflight, process, db, files, phase, posted, inbox, outbox, advertised, hist, last>>

Next ==
    \/ \E s \in Sessions : handle_sse(s)
    \/ \E s \in Sessions : Disconnect(s)
    \/ \E s \in Sessions : handle_post_message(s)
    \/ \E s \in Sessions : handle_list_tools(s)
    \/ \E s \in Sessions : handle_call_tool(s)

Spec == Init /\ [][Next]_vars

(* The dispatcher alone: one connection, invocations one after the other *)
DispatchNext ==
    \/ handle_sse("A")
    \/ Invoke("A")

DispatchSpec == Init /\ [][DispatchNext]_vars

(* The file-writing tools under a running wall clock *)
ExportNext ==
    \/ handle_sse("A")
    \/ Export("A")
    \/ Tick

ExportSpec == Init /\ [][ExportNext]_vars

(* Startup.  The package's main reads the flags and the environment, and   *)
(* server.main builds the application, constructing the adapter, before it *)
(* hands the application to uvicorn.run.                                   *)

\* a value Python takes as true: neither None nor the empty string
Truthy(x) == x # None /\ x[1] # ""

\* a or b
Or(a, b) == IF Truthy(a) THEN a ELSE b

\* what --project / BIGQUERY_PROJECT and --location / BIGQUERY_LOCATION can hold
ProjectValues == {None, Some(""), Some("p")}
LocationValues == {None, Some(""), Some("US")}

\* the paths a key file can be given as, and those that hold credentials
KeyFileValues == {None, Some(""), Some("bad.json"), Some("key.json")}
KeyFiles == {"key.json"}

\* the parameters of BigQueryDatabase.__init__ besides self
InitParams == 4

\* a constructor that does not look at the location
BigQueryDatabase_project_only(args) ==
    IF Len(args) # InitParams
    THEN Raise("TypeError", "__init__() missing 1 required positional argument: 'datasets_filter'")
    ELSE IF ~Truthy(args[1]) THEN Raise("ValueError", "Project is required")
    ELSE IF Truthy(args[3]) /\ args[3][1] \notin KeyFiles
    THEN Raise("ValueError", "Invalid key file")
    ELSE Return([last_query_results |-> None, datasets_filter |-> args[4]])

\* BigQueryDatabase(project, location, key_file, datasets_filter), called with
\* the positional arguments args
BigQueryDatabase(args) ==
    IF Len(args) # InitParams
    THEN Raise("TypeError", "__init__() missing 1 required positional argument: 'datasets_filter'")
    ELSE IF ~Truthy(args[1]) THEN Raise("ValueError", "Project is required")
    ELSE IF ~Truthy(args[2]) THEN Raise("ValueError", "Location is required")
    ELSE IF Truthy(args[3]) /\ args[3][1] \notin KeyFiles
    THEN Raise("ValueError", "Invalid key file")
    ELSE Return([last_query_results |-> None, datasets_filter |-> args[4]])

\* create_starlette_app up to the construction of db
create_starlette_app(db_project, db_location, db_key_file) ==
    BigQueryDatabase(<<db_project, db_location, db_key_file>>)

\* the process has been started and main has not run yet
StartupInit ==
    /\ config \in [flags : [project : ProjectValues, location : LocationValues,
                              key_file : KeyFileValues],
                     env : [project : ProjectValues, location : LocationValues,
                            key_file : {None, Some("key.json")}],
                     resolved : {None}]
    /\ inflight = {}
    /\ process = "starting"
    /\ db = [last_query_results |-> None, datasets_filter |-> <<>>]
    /\ files = [p \in {} |-> <<>>]
    /\ now = 0
    /\ phase = [s \in Sessions |-> "Idle"]
    /\ posted = 0
    /\ inbox = [s \in Sessions |-> <<>>]
    /\ outbox = [s \in Sessions |-> <<>>]
    /\ advertised = [s \in Sessions |-> FALSE]
    /\ hist = [s \in Sessions |-> NoHistory]
    /\ last = None

\* the package's main and server.main: resolve the configuration, build the
\* application and, when that did not raise, serve it
main ==
    /\ process = "starting"
    /\ LET project == Or(config.flags.project, config.env.project)
           location == Or(config.flags.location, config.env.location)
           key_file == Or(config.flags.key_file, config.env.key_file)
           r == create_starlette_app(project, location, key_file)
       IN  /\ config' = [config EXCEPT !.resolved =
                            Some([project |-> project, location |-> location,
                                  key_file |-> key_file])]
           /\ process' = IF r.raised THEN "failed" ELSE "serving"
           /\ db' = IF r.raised THEN db ELSE r.val
    /\ UNCHANGED <<inflight, files, now, phase, posted, inbox, outbox, advertised, hist, last>>

StartupNext == main

StartupSpec == StartupInit /\ [][StartupNext]_vars

(* The event loop.  uvicorn.run drives one event loop on one thread.        *)
(* handle_call_tool is a coroutine with no await in its body, and the       *)
(* adapter waits for the warehouse inside job.result(), a blocking call:    *)
(* from the moment the loop enters the handler until the handler returns,   *)
(* the thread is inside it and the loop runs nothing else.                  *)

\* the loop's thread is not inside a handler
LoopFree == inflight = {}

\* the loop takes up the oldest frame of the connection and enters the handler,
\* which goes into its adapter call
call_tool_enters(s) ==
    /\ process = "serving"
    /\ phase[s] = "Open"
    /\ inbox[s] # <<>>
    /\ s \notin inflight
    /\ LoopFree
    /\ inflight' = inflight \cup {s}
    /\ UNCHANGED <<config, process, db, files, now, phase, posted, inbox, outbox, advertised, hist, last>>

\* the adapter call comes back and the handler returns its result
call_tool_returns(s) ==
    /\ s \in inflight
    /\ inflight' = inflight \ {s}
    /\ \E name \in ToolNames :
       \E arguments \in TypicalBags(name), out \in Outcomes(name) :
          /\ Handled(s, Dequeue(inbox[s]).frame, name, arguments, out)
          /\ inbox' = [inbox EXCEPT ![s] = Dequeue(inbox[s]).rest]
    /\ UNCHANGED <<config, process, now, phase, posted, advertised>>

LoopNext ==
    \/ \E s \in Sessions : handle_sse(s)
    \/ \E s \in Sessions : handle_post_message(s)
    \/ \E s \in Sessions : call_tool_enters(s)
    \/ \E s \in Sessions : call_tool_returns(s)

LoopSpec == Init /\ [][LoopNext]_vars

----------------------------------------------------------------------------
(* Properties.  last[1] describes the most recent handler run: the         *)
(* connection, the tool name and arguments, whether the try block raised,  *)
(* the content returned, the adapter and the files before the run, and the *)
(* queries, listings and file write the run made.                          *)

Called == last # None /\ last[1].method = "tools/call"
CalledTool(name) == Called /\ last[1].name = name
HasArg(key) == last[1].arguments # None /\ key \in DOMAIN last[1].arguments[1]
ErrorResult ==
    /\ Len(last[1].content) = 1
    /\ last[1].content[1].type = "text"
    /\ last[1].content[1].text.head = "Error: "
Written == files[last[1].wrote[1]]

\* C1: the LastQueryCache is isolated per session: a tool call made on one
\* connection never changes the cache that another open connection observes.
C1_CacheIsolatedPerSession ==
    \A a \in Sessions :
        (Called /\ last[1].sess # a /\ phase[a] = "Open")
            => LastQueryCache(a) = last[1].before.last_query_results

\* C2: save-last-results-csv with a file_path, in a session that has made no
\* execute-query and no CSV-generating call, returns an error result and writes
\* no file; and the cache of such a session is empty.
C2_FreshSessionHasNoCache ==
    /\ (CalledTool("save-last-results-csv") /\ HasArg("file_path")
            /\ ~hist[last[1].sess].called)
        => (ErrorResult /\ last[1].wrote = None /\ files = last[1].files_before)
    /\ \A s \in Sessions :
        (phase[s] = "Open" /\ ~hist[s].called) => LastQueryCache(s) = None

\* C3: a successful save-csv-file or save-csv-auto populates the cache with the
\* result of its query, the one it wrote to the file.
C3_CsvQueryPopulatesCache ==
    (Called /\ last[1].name \in {"save-csv-file", "save-csv-auto"} /\ ~last[1].raised)
        => /\ LastQueryCache(last[1].sess) # None
           /\ CsvLines(LastQueryCache(last[1].sess)[1].schema,
                       LastQueryCache(last[1].sess)[1].rows) = Written

\* C4: list-tables, describe-table and save-last-results-csv leave the cache as
\* it was, whatever their outcome: only the query-executing tools change it.
C4_OnlyQueryToolsChangeCache ==
    (Called /\ last[1].name \in {"list-tables", "describe-table", "save-last-results-csv"})
        => db.last_query_results = last[1].before.last_query_results

\* C5: a save-last-results-csv that writes, writes the header and rows of the
\* most recent successful execute-query of its session, and sends no query to
\* the warehouse.
C5_SaveLastWritesLastExecuteQuery ==
    (CalledTool("save-last-results-csv") /\ ~last[1].raised)
        => /\ last[1].queries = <<>>
           /\ last[1].wrote # None
           /\ hist[last[1].sess].exec # None
           /\ Written = CsvLines(hist[last[1].sess].exec[1].schema,
                                 hist[last[1].sess].exec[1].rows)

\* C6: the dispatcher is total: every call returns exactly one result, a failed
\* operation gives one text block that begins with "Error: ", the frame is
\* answered once and the connection stays open and served afterwards.
C6_DispatcherTotal ==
    Called =>
        /\ Len(last[1].content) = 1
        /\ last[1].content[1].type = "text"
        /\ last[1].raised => last[1].content[1].text.head = "Error: "
        /\ Cardinality({i \in 1..Len(outbox[last[1].sess]) :
                            outbox[last[1].sess][i] = last[1].frame}) = 1
        /\ phase[last[1].sess] = "Open"
        /\ process = "serving"

\* a call that succeeded on a connection where an earlier call had failed
C6_Witness ==
    /\ Called
    /\ ~last[1].raised
    /\ hist[last[1].sess].erred

\* the arguments each tool requires, as the claim lists them
RequiredArguments(name) ==
    CASE name \in {"execute-query", "save-csv-auto"} -> {"query"}
      [] name = "describe-table" -> {"table_name"}
      [] name = "save-csv-file" -> {"query", "file_path"}
      [] name = "save-last-results-csv" -> {"file_path"}
      [] OTHER -> {}

LacksRequiredArgument ==
    /\ RequiredArguments(last[1].name) # {}
    /\ \/ last[1].arguments = None
       \/ \E k \in RequiredArguments(last[1].name) : k \notin DOMAIN last[1].arguments[1]

\* C7: a call that lacks a required argument returns an error result, calls the
\* backend for nothing, writes no file and leaves the cache as it was.
C7_MissingArgumentRejected ==
    (Called /\ LacksRequiredArgument)
        => /\ ErrorResult
           /\ last[1].queries = <<>>
           /\ last[1].listings = 0
           /\ last[1].wrote = None
           /\ files = last[1].files_before
           /\ db = last[1].before

\* save-csv-file with a query and no file_path was rejected
C7_Witness ==
    /\ CalledTool("save-csv-file")
    /\ HasArg("query")
    /\ ~HasArg("file_path")
    /\ ErrorResult

\* C8: list-tables, with or without datasets_filter or with no bag, returns the
\* listing and not an error, as long as the backend's listing calls succeed.
C8_ListTablesFilterOptional ==
    CalledTool("list-tables")
        => \/ ~last[1].raised /\ last[1].content[1].text.head = "["
           \/ last[1].type = "BackendError"

\* the dot-separated segments of a name: one more than its dots
Segments(table_name) ==
    1 + Cardinality({i \in 1..Len(table_name) : table_name[i] = "."})

\* C9: describe-table sends a query, exactly one, if and only if table_name has
\* 2 or 3 dot-separated segments; any other name gives a validation error.
C9_DescribeTableSegments ==
    (CalledTool("describe-table") /\ HasArg("table_name"))
        => LET n == Segments(last[1].arguments[1].table_name) IN
           /\ n \in {2, 3} => Len(last[1].queries) = 1
           /\ n \notin {2, 3} =>
                /\ last[1].queries = <<>>
                /\ ErrorResult
                /\ last[1].type = "ValueError"
                /\ db = last[1].before

\* describe-table rejected a name of four segments
C9_Witness ==
    /\ CalledTool("describe-table")
    /\ HasArg("table_name")
    /\ Segments(last[1].arguments[1].table_name) = 4
    /\ ErrorResult
    /\ last[1].queries = <<>>

C11_SessionsDoNotWait ==
    \A s, t \in Sessions :
        (s \in inflight /\ t # s /\ phase[t] = "Open" /\ inbox[t] # <<>>)
            => ENABLED call_tool_enters(t)

\* C12: in every session the catalog is advertised before any invocation is
\* accepted: no tool call is dispatched on a connection whose catalog has not
\* been returned yet.
C12_CatalogBeforeInvocation ==
    Called => advertised[last[1].sess]

Listed == last # None /\ last[1].method = "tools/list"
ListedNames == [i \in 1..Len(last[1].content) |-> last[1].content[i].name]
ListedRequired == [i \in 1..Len(last[1].content) |-> last[1].content[i].required]

\* C13 as stated: list_tools returns five descriptors with unique names.
C13_FiveDescriptors ==
    Listed =>
        /\ Len(last[1].content) = 5
        /\ \A i, j \in 1..Len(ListedNames) : ListedNames[i] = ListedNames[j] => i = j

\* C13: list_tools is pure and deterministic: in every session and after any
\* sequence of invocations it returns the same six descriptors, with unique
\* names, in the same order, and changes neither the adapter nor any file.
C13_SameSixDescriptors ==
    Listed =>
        /\ ListedNames = <<"execute-query", "list-tables", "describe-table",
                           "save-csv-file", "save-last-results-csv", "save-csv-auto">>
        /\ ListedRequired = <<{"query"}, {}, {"table_name"}, {"query", "file_path"},
                              {"file_path"}, {"query"}>>
        /\ \A i, j \in 1..Len(ListedNames) : ListedNames[i] = ListedNames[j] => i = j
        /\ db = last[1].before
        /\ files = last[1].files_before

\* the catalog was returned on a connection after a query had filled the cache
C13_Witness ==
    /\ Listed
    /\ db.last_query_results # None

KnownTools == {handle_list_tools_result[i].name : i \in 1..Len(handle_list_tools_result)}

\* C14: a tool name outside the dispatcher's set, with any argument bag, gives
\* an error result whose text contains "Unknown tool", with no backend call, no
\* file write and no cache change, and the process keeps serving.
C14_UnknownToolRejected ==
    (Called /\ last[1].name \notin KnownTools) =>
        /\ ErrorResult
        /\ last[1].content[1].text.body = <<"Unknown tool: ", last[1].name>>
        /\ last[1].queries = <<>>
        /\ last[1].listings = 0
        /\ last[1].wrote = None
        /\ files = last[1].files_before
        /\ db = last[1].before
        /\ process = "serving"
        /\ phase[last[1].sess] = "Open"

\* "drop-everything" was called with a query while a result was cached
C14_Witness ==
    /\ CalledTool("drop-everything")
    /\ HasArg("query")
    /\ ErrorResult
    /\ db.last_query_results # None

\* C17: execute-query requires a non-empty query: a call whose query argument
\* is present but is the empty string is reported as an error and no query is
\* sent to the warehouse.
C17_EmptyQueryRejected ==
    (CalledTool("execute-query") /\ HasArg("query") /\ last[1].arguments[1].query = "")
        => (ErrorResult /\ last[1].queries = <<>>)

\* C20: failure leaves the cache untouched: every call that returns an
\* "Error: ..." result leaves last_query_results exactly as it was before the
\* call.
C20_FailureKeepsCache ==
    (Called /\ ErrorResult)
        => db.last_query_results = last[1].before.last_query_results

\* an execute-query failed in the warehouse while an earlier result was cached
C20_Witness ==
    /\ CalledTool("execute-query")
    /\ ErrorResult
    /\ last[1].type = "BackendError"
    /\ last[1].before.last_query_results # None
    /\ db.last_query_results # None

\* the warehouse's answer to the query of the most recent call
Fetched == last[1].result[1]
DataLine(i) == [j \in 1..Len(Fetched.rows[i]) |-> Fetched.rows[i][j][2]]
Saved == CalledTool("save-csv-file") /\ ~last[1].raised
ReportsCountAndPath(path) ==
    /\ Len(last[1].content) = 1
    /\ last[1].content[1].text.head = "Successfully saved "
    /\ last[1].content[1].text.body.row_count = Len(Fetched.rows)
    /\ last[1].content[1].text.body.file_path = path

\* C15 as stated: a successful save-csv-file whose query returns N rows leaves
\* at file_path one header row followed by exactly N data rows, and the
\* message reports N and the path.
C15_HeaderPlusRows ==
    Saved =>
        /\ last[1].wrote = Some(last[1].arguments[1].file_path)
        /\ Len(Written) = 1 + Len(Fetched.rows)
        /\ Written[1] = Fetched.schema
        /\ \A i \in 1..Len(Fetched.rows) : Written[1 + i] = DataLine(i)
        /\ ReportsCountAndPath(last[1].arguments[1].file_path)

\* C15: a successful save-csv-file whose query returns N rows leaves at
\* file_path a file of one header row (the column names in schema order) when
\* the result has a schema and no header row when it has none, followed by
\* exactly N data rows in return order with values in column order, and the
\* message reports N and that path.
C15_CsvRoundTrip ==
    Saved =>
        LET h == IF Fetched.schema # <<>> THEN 1 ELSE 0 IN
        /\ last[1].wrote = Some(last[1].arguments[1].file_path)
        /\ Len(Written) = h + Len(Fetched.rows)
        /\ h = 1 => Written[1] = Fetched.schema
        /\ \A i \in 1..Len(Fetched.rows) : Written[h + i] = DataLine(i)
        /\ ReportsCountAndPath(last[1].arguments[1].file_path)

\* a result of two columns and two rows was saved
C15_Witness ==
    /\ Saved
    /\ Len(Fetched.schema) = 2
    /\ Len(Fetched.rows) = 2
    /\ Len(Written) = 3

AutoSaved == CalledTool("save-csv-auto") /\ ~last[1].raised
\* "{directory}/{base_name}_{YYYYMMDD_HHMMSS}.csv" for the call's arguments and
\* the second in which it ran
AutoPath ==
    [dir |-> IF HasArg("directory") THEN last[1].arguments[1].directory ELSE ".",
     base |-> IF HasArg("base_name") THEN last[1].arguments[1].base_name
              ELSE "bigquery_export",
     stamp |-> Some(last[1].at \div TicksPerSecond)]
FetchedLines ==
    (IF Fetched.schema # <<>> THEN <<Fetched.schema>> ELSE <<>>)
        \o [i \in 1..Len(Fetched.rows) |-> DataLine(i)]

\* C16: save-csv-auto writes to "{directory}/{base_name}_{YYYYMMDD_HHMMSS}.csv",
\* directory defaulting to the current directory and base_name to
\* "bigquery_export"; a call that targets a path written earlier in the same
\* second succeeds and the file then holds only this call's result; no other
\* file changes.
C16_AutoPathLastWriterWins ==
    AutoSaved =>
        /\ last[1].wrote = Some(AutoPath)
        /\ AutoPath \in DOMAIN files
        /\ files[AutoPath] = FetchedLines
        /\ ReportsCountAndPath(AutoPath)
        /\ DOMAIN files = DOMAIN last[1].files_before \cup {AutoPath}
        /\ \A q \in DOMAIN last[1].files_before :
                q # AutoPath => files[q] = last[1].files_before[q]

\* a second save-csv-auto, at a later instant of the same second, replaced what
\* the first one had written to the same path
C16_Witness ==
    /\ AutoSaved
    /\ last[1].at = 1
    /\ strftime(last[1].at) = strftime(0)
    /\ AutoPath \in DOMAIN last[1].files_before
    /\ last[1].files_before[AutoPath] # <<>>
    /\ last[1].files_before[AutoPath] # files[AutoPath]

\* the configuration as the operator gave it: a value is missing when neither
\* the flag nor the environment variable holds a non-empty string
Given(key) ==
    IF config.flags[key] # None /\ config.flags[key] # Some("")
    THEN config.flags[key] ELSE config.env[key]
Missing(key) == Given(key) = None \/ Given(key) = Some("")
KeyFileUnreadable == ~Missing("key_file") /\ Given("key_file")[1] \notin KeyFiles
ConfigurationError == Missing("project") \/ Missing("location") \/ KeyFileUnreadable
Started == process # "starting"

\* C18: configuration errors are fatal at startup and never per request: with
\* project or location missing or empty, or a key file that does not parse, the
\* construction of the adapter fails, the process never serves, no connection
\* is ever accepted and no invocation is ever dispatched.
C18_ConfigErrorsFatalAtStartup ==
    ConfigurationError =>
        /\ BigQueryDatabase(<<Given("project"), Given("location"),
                              Given("key_file"), <<>> >>).raised
        /\ Started => process = "failed"
        /\ \A s \in Sessions :
              /\ phase[s] = "Idle"
              /\ ~ENABLED handle_sse(s)
              /\ ~ENABLED handle_call_tool(s)
        /\ last = None

\* startup ran and failed with a project but no location
C18_Witness ==
    /\ Started
    /\ process = "failed"
    /\ ~Missing("project")
    /\ Missing("location")
    /\ config.resolved # None
    /\ config.resolved[1].location = Given("location")

\* C19: with a valid configuration (project and location non-empty, and no key
\* file or one that parses) startup completes: the adapter is constructed and
\* the process reaches the serving state, in which connections are accepted.
C19_ValidConfigStarts ==
    (Started /\ ~ConfigurationError)
        => /\ process = "serving"
           /\ \A s \in Sessions : ENABLED handle_sse(s)

====
